---- MODULE Spec2Model ----
(***************************************************************************)
(* UnityScraper (src/downloader.py): the retrying fetcher _make_request,   *)
(* the two download phases download_covers / download_updates with their   *)
(* thread-pool dispatch, and the orchestrator scrape_multiple; and the GUI  *)
(* (src/GUI.py): start_download, download_title_ids, process_queue.        *)
(*                                                                         *)
(* The remote service and the filesystem are the environment: every HTTP   *)
(* attempt, every response payload, every response header and every        *)
(* filesystem call draws its outcome from a small set.                     *)
(***************************************************************************)
EXTENDS Naturals, Sequences, FiniteSets, TLC

(* ---------------------------------------------------------------------- *)
(* Program constants (class attributes of UnityScraper)                    *)
(* ---------------------------------------------------------------------- *)
MAX_RETRIES == 3
BACKOFF_FACTOR == 2
MAX_BACKOFF == 30
MAX_WORKERS == 4

(* ---------------------------------------------------------------------- *)
(* Bounds of the model                                                     *)
(* ---------------------------------------------------------------------- *)
\* longest title_ids list handed to scrape_multiple
MaxTitles == 2
\* most descriptors (covers, resp. update entries) in one metadata payload
\* answered to a phase that was called directly
MaxItems == 2
\* most descriptors in one metadata payload answered during scrape_multiple
MaxScrapeItems == 1
\* descriptors the service lists for the title with the long catalogue
PoolItems == 5
\* largest attempt number the backoff formula is evaluated for
MaxAttempt == 8
\* most download runs started from the GUI
MaxRuns == 2

(* ---------------------------------------------------------------------- *)
(* Strings.  A title identifier as typed is a sequence of one-character    *)
(* strings, so that str.strip() is computed and not assumed.               *)
(* ---------------------------------------------------------------------- *)
Whitespace == {" "}

RECURSIVE LStrip(_)
LStrip(s) == IF s # <<>> /\ Head(s) \in Whitespace THEN LStrip(Tail(s)) ELSE s

RECURSIVE RStrip(_)
RStrip(s) ==
    IF s # <<>> /\ s[Len(s)] \in Whitespace
    THEN RStrip(SubSeq(s, 1, Len(s) - 1))
    ELSE s

\* str.strip()
Strip(s) == RStrip(LStrip(s))

\* the Python string spelled by a sequence of characters
RECURSIVE Str(_)
Str(s) == IF s = <<>> THEN "" ELSE Head(s) \o Str(Tail(s))

\* the raw strings a caller may put in title_ids
RawTitles == { <<" ">>, <<" ", "A", " ">>, <<"B">> }

\* titles are named in order of first appearance (renaming changes nothing)
TitleLists ==
    { l \in UNION { [1..n -> RawTitles] : n \in 0..MaxTitles } :
        \A i \in 1..Len(l) : l[i] = <<"B">> => \E j \in 1..(i - 1) : l[j] = <<" ", "A", " ">> }

Min(a, b) == IF a <= b THEN a ELSE b

Last(s) == s[Len(s)]

(* ---------------------------------------------------------------------- *)
(* _make_request: one frame per call, one step per loop iteration          *)
(* ---------------------------------------------------------------------- *)
\* what one session.get + raise_for_status can do
Outcomes == {"2xx", "3xx", "4xx5xx", "transport", "timeout"}

\* session.get raises RequestException/Timeout, or raise_for_status raises
\* HTTPError (a RequestException) for a 4xx/5xx status
Raises(o) == o \in {"4xx5xx", "transport", "timeout"}

Url(ep, arg) == [ep |-> ep, arg |-> arg]

NoUrl == Url("none", "")

\* a call of _make_request(url): hist holds one entry per session.get made,
\* "fail" for an attempt that raised and the status class of one that did
\* not; slept holds the sleeps done; ret is "running" until the call returns
\* "resp" (return resp) or "None" (return None)
NewRequest(url) == [url |-> url, hist |-> <<>>, slept |-> <<>>, ret |-> "running"]

\* no call in progress
NoRequest == [url |-> NoUrl, hist |-> <<>>, slept |-> <<>>, ret |-> "idle"]

\* the frame has returned its response (return resp)
Succeeded(f) == f.ret = "resp"

\* the for loop has another iteration to run
LoopContinues(f) == f.ret = "running"

\* the loop ran out: logger.error + return None
Exhausted(f) == f.ret = "None"

\* mutant: the exponent is attempt, not attempt - 1
BackoffFromAttempt(attempt) == Min(BACKOFF_FACTOR ^ attempt, MAX_BACKOFF)

\* wait = min(BACKOFF_FACTOR ** (attempt - 1), MAX_BACKOFF)
Backoff(attempt) == Min(BACKOFF_FACTOR ^ (attempt - 1), MAX_BACKOFF)

\* mutant: the loop is range(1, MAX_RETRIES), one attempt short
LastAttemptOffByOne(attempt) == attempt = MAX_RETRIES - 1

\* attempt is the last value of range(1, MAX_RETRIES + 1)
LastAttempt(attempt) == attempt = MAX_RETRIES

\* the except branch: log, sleep(wait); after the last iteration the loop
\* ends and the function returns None
OnFailure(f) ==
    LET attempt == Len(f.hist) + 1 IN
    [f EXCEPT !.hist = Append(@, "fail"),
              !.slept = Append(@, Backoff(attempt)),
              !.ret = IF LastAttempt(attempt) THEN "None" ELSE "running"]

\* mutant: return resp stands after the loop, so the loop goes on after a
\* successful attempt
OnSuccessKeepsLooping(f, o) ==
    [f EXCEPT !.hist = Append(@, o),
              !.ret = IF Len(f.hist) + 1 >= MAX_RETRIES THEN "resp" ELSE "running"]

\* the try branch ran through: return resp
OnSuccess(f, o) == [f EXCEPT !.hist = Append(@, o), !.ret = "resp"]

\* one iteration of the for loop with attempt = Len(hist) + 1
Attempt(f, o) == IF Raises(o) THEN OnFailure(f) ELSE OnSuccess(f, o)

(* ---------------------------------------------------------------------- *)
(* Paths and file names                                                    *)
(* ---------------------------------------------------------------------- *)
\* BASE_DIR = Path("unityscrape"); a path is its sequence of components
BASE_DIR == <<"unityscrape">>

\* Path.mkdir(parents=True, exist_ok=True) creates the directory and every
\* missing ancestor
MkdirParents(dir) == { SubSeq(dir, 1, n) : n \in 1..Len(dir) }

\* A header value is a sequence of tokens (a token stands for a run of
\* characters), <<>> when the header is absent.
Index(s, tok) ==
    IF \E i \in 1..Len(s) : s[i] = tok
    THEN CHOOSE i \in 1..Len(s) : s[i] = tok /\ \A j \in 1..(i - 1) : s[j] # tok
    ELSE 0

RECURSIVE StripTok(_, _)
StripTok(s, toks) ==
    IF s # <<>> /\ Head(s) \in toks THEN StripTok(Tail(s), toks)
    ELSE IF s # <<>> /\ Last(s) \in toks
         THEN StripTok(SubSeq(s, 1, Len(s) - 1), toks)
         ELSE s

\* _extract_filename: re.findall(r'filename="?(.+)"?', cd), first match,
\* .strip().strip('"'); "" stands for None (both are falsy to the callers)
ExtractFilename(cd) ==
    LET i    == Index(cd, "filename=")
        rest == SubSeq(cd, i + 1, Len(cd))
        grp  == IF rest # <<>> /\ Len(rest) > 1 /\ Head(rest) = "\"" THEN Tail(rest) ELSE rest
    IN  IF cd = <<>> \/ i = 0 \/ grp = <<>>
        THEN ""
        ELSE Str(StripTok(StripTok(grp, Whitespace), {"\""}))

\* content_type.split("/")[-1] if "/" in content_type else "jpg"
RECURSIVE AfterLastSlash(_)
AfterLastSlash(ct) ==
    IF Index(ct, "/") = 0 THEN ct
    ELSE AfterLastSlash(SubSeq(ct, Index(ct, "/") + 1, Len(ct)))

CoverExt(ct) == IF Index(ct, "/") # 0 THEN Str(AfterLastSlash(ct)) ELSE "jpg"

\* the response headers the service may send with a binary
ContentDispositions ==
    { <<>>,
      <<"attachment">>,
      <<"attachment; ", "filename=", "\"", "front.jpg", "\"">>,
      <<"attachment; ", "filename=", "front.jpg", " ">> }

ContentTypes == { <<>>, <<"image", "/", "jpg">> }

Headers == [cd : ContentDispositions, ct : ContentTypes]

\* lines 184-193: the destination of a cover
CoverFile(title_id, cover_id, h) ==
    LET filename == IF ExtractFilename(h.cd) # ""
                    THEN ExtractFilename(h.cd)
                    ELSE cover_id \o "." \o CoverExt(h.ct)
    IN  BASE_DIR \o <<title_id, "covers", filename>>

\* lines 291-297: the destination directory and file of an update
UpdateDir(title_id, media_id, version) ==
    BASE_DIR \o <<title_id, media_id, "updateversion" \o version>>

UpdateFile(title_id, media_id, version, tuid, h) ==
    LET filename == IF ExtractFilename(h.cd) # ""
                    THEN ExtractFilename(h.cd)
                    ELSE "update_" \o tuid \o ".bin"
    IN  UpdateDir(title_id, media_id, version) \o <<filename>>

\* _save_json: BASE_DIR / title_id / f"{json_type}_data.json"
JsonFile(title_id, json_type) == BASE_DIR \o <<title_id, json_type \o "_data.json">>

(* ---------------------------------------------------------------------- *)
(* Metadata payloads the service may answer with                           *)
(* ---------------------------------------------------------------------- *)
\* json: "invalid" (resp.json() raises ValueError), "nondict" (valid JSON
\* that is no object), "dict".  field: the list field (Covers / MediaIDS) is
\* "absent", "notlist" (present, no list) or "list" with the given items.
Payload(json, field, items) == [json |-> json, field |-> field, items |-> items]

\* a JSON value standing where a descriptor object is expected: dict is
\* FALSE for a value that is no object; an id of "" is absent, null or ""
Cover(dict, cover_id) == [dict |-> dict, CoverID |-> cover_id]

CoverEntries ==
    { Cover(FALSE, ""), Cover(TRUE, ""), Cover(TRUE, "c1"), Cover(TRUE, "c2") }

\* ids are named in order of first appearance (renaming ids changes nothing)
InOrder(ids, first, second) ==
    \A i \in 1..Len(ids) : ids[i] = second => \E j \in 1..(i - 1) : ids[j] = first

\* the Covers lists of at most max entries
CoverLists(max) ==
    { l \in UNION { [1..n -> CoverEntries] : n \in 0..max } :
        InOrder([i \in 1..Len(l) |-> l[i].CoverID], "c1", "c2") }

BadPayloads ==
    { Payload("invalid", "absent", <<>>), Payload("nondict", "absent", <<>>),
      Payload("dict", "absent", <<>>), Payload("dict", "notlist", <<>>) }

CoverPayloads(max) ==
    BadPayloads \cup { Payload("dict", "list", l) : l \in CoverLists(max) }

\* an entry of Updates; a Version of "" is absent or null
Update(dict, tuid, version) == [dict |-> dict, TitleUpdateID |-> tuid, Version |-> version]

UpdateEntries ==
    { Update(FALSE, "", ""), Update(TRUE, "", "3"), Update(TRUE, "t1", ""),
      Update(TRUE, "t1", "3"), Update(TRUE, "t2", "3") }

\* an entry of MediaIDS; field/items describe its Updates member
Media(dict, media_id, field, items) ==
    [dict |-> dict, MediaID |-> media_id, field |-> field, items |-> items]

\* a (media, upd) pair as download_updates hands it to a worker; a media_id
\* of "" is an absent, null or empty MediaID
Pair(media_id, upd) == [media_id |-> media_id, update_entry |-> upd]

PairEntries ==
    { Pair(m, u) : m \in {"10", "20"}, u \in UpdateEntries }
    \cup { Pair("", Update(TRUE, "t1", "3")) }

PairLists(max) ==
    { l \in UNION { [1..n -> PairEntries] : n \in 0..max } :
        /\ InOrder([i \in 1..Len(l) |-> l[i].media_id], "10", "20")
        /\ InOrder([i \in 1..Len(l) |-> l[i].update_entry.TitleUpdateID], "t1", "t2") }

\* the MediaIDS document that lists the given pairs: consecutive pairs of
\* one MediaID share a media entry
RECURSIVE Group(_)
Group(pairs) ==
    IF pairs = <<>> THEN <<>>
    ELSE LET rest == Group(Tail(pairs))
             p    == Head(pairs)
         IN  IF rest # <<>> /\ Head(rest).MediaID = p.media_id
             THEN <<[Head(rest) EXCEPT !.items = <<p.update_entry>> \o @]>> \o Tail(rest)
             ELSE <<Media(TRUE, p.media_id, "list", <<p.update_entry>>)>> \o rest

\* media entries that list nothing: no object, Updates absent, no list, empty
EmptyMedia ==
    { Media(FALSE, "", "absent", <<>>), Media(TRUE, "10", "absent", <<>>),
      Media(TRUE, "10", "notlist", <<>>), Media(TRUE, "10", "list", <<>>) }

\* the MediaIDS lists of at most max update entries, with at most one media
\* entry that lists nothing
MediaLists(max) ==
    { Group(l) : l \in PairLists(max) }
    \cup { <<m>> \o Group(l) : m \in EmptyMedia, l \in PairLists(max - 1) }
    \cup { Group(l) \o <<m>> : m \in EmptyMedia, l \in PairLists(max - 1) }

UpdatePayloads(max) ==
    BadPayloads \cup { Payload("dict", "list", l) : l \in MediaLists(max) }

\* a title for which the service lists PoolItems well-formed descriptors,
\* more than the pool has workers
LongTitle == "L"

LongCovers == [i \in 1..PoolItems |-> Cover(TRUE, "c" \o ToString(i))]

LongMedia ==
    <<Media(TRUE, "10", "list",
            [i \in 1..PoolItems |-> Update(TRUE, "t" \o ToString(i), "3")])>>

LongPayloads(kind) ==
    { Payload("dict", "list", IF kind = "covers" THEN LongCovers ELSE LongMedia) }

\* the documents resp.json() may return to a phase called by caller for
\* title_id
Payloads(kind, caller, title_id) ==
    LET max == IF caller = "scrape_multiple" THEN MaxScrapeItems ELSE MaxItems
    IN  IF title_id = LongTitle THEN LongPayloads(kind)
        ELSE IF kind = "covers" THEN CoverPayloads(max) ELSE UpdatePayloads(max)

\* The requests for the long-catalogue title are all answered 200 with no
\* Content-Disposition and no Content-Type, and its files are written
\* through; the requests and writes for any other title may do anything.
OutcomesFor(title_id) == IF title_id = LongTitle THEN {"2xx"} ELSE Outcomes

HeadersFor(title_id) ==
    IF title_id = LongTitle THEN { [cd |-> <<>>, ct |-> <<>>] } ELSE Headers

(* ---------------------------------------------------------------------- *)
(* State                                                                   *)
(* ---------------------------------------------------------------------- *)
VARIABLES
    entry,      \* the public method that was called
    title_ids,  \* scrape_multiple: its argument
    idx,        \* scrape_multiple: entries of title_ids consumed by the loop
    failed,     \* scrape_multiple: the list it builds
    ok1,        \* scrape_multiple: result of download_covers for tid
    log,        \* per processed title, what its two phases returned
    tid,        \* title_id of the running download_covers / download_updates
    phase,      \* "covers" | "updates" | "none": which of the two is running
    pc,         \* where the calling thread stands
    mreq,       \* the calling thread's _make_request frame (metadata)
    data,       \* covers_data / updates_data once parsed
    tasks,      \* the futures of the running batch, in submission order
    success,    \* the local the as_completed loop folds results into
    dirs,       \* directories created by the running phase
    files,      \* files created by the running phase
    ret,        \* what the called method returned or raised
    is_downloading,     \* App.is_downloading
    queue,              \* App.queue, oldest message first
    threads,            \* the download_title_ids threads started so far
    total_to_download,  \* App.total_to_download
    completed_count,    \* App.completed_count
    inputs,             \* state of start_button and title_id_entry
    history_listbox,    \* the lines of App.history_listbox
    status_label,       \* the text of App.status_label
    window              \* "open" until destroy()

vars == <<entry, title_ids, idx, failed, ok1, log, tid, phase, pc, mreq, data,
          tasks, success, dirs, files, ret, is_downloading, queue, threads,
          total_to_download, completed_count, inputs, history_listbox,
          status_label, window>>

\* the state of the GUI
gui == <<is_downloading, queue, threads, total_to_download, completed_count,
         inputs, history_listbox, status_label, window>>

\* the state of the downloader
downloader == <<entry, title_ids, idx, failed, ok1, log, tid, phase, pc, mreq,
                data, tasks, success, dirs, files, ret>>

scrape == <<title_ids, idx, failed, ok1, log>>

NoData == Payload("none", "absent", <<>>)

NoRet == [kind |-> "none", bool |-> FALSE, list |-> <<>>]
RetBool(b) == [kind |-> "bool", bool |-> b, list |-> <<>>]
RetList(l) == [kind |-> "list", bool |-> FALSE, list |-> l]
RetRaise == [kind |-> "raise", bool |-> FALSE, list |-> <<>>]

\* a future: st is "new" (not yet submitted), "queued", "fetch" (the callable
\* runs: inside _make_request or just back from it) or "done"; res is the
\* outcome of the callable: "true", "false" or "raise"; seen: consumed by
\* the as_completed loop
NewTask(item) ==
    [item |-> item, st |-> "new", req |-> NoRequest, res |-> "none",
     path |-> <<>>, seen |-> FALSE]

InfoUrl(kind, title_id) ==
    Url(IF kind = "covers" THEN "cover_info" ELSE "update_info", title_id)

\* the locals of a phase at its call
CallPhase(kind, title_id) ==
    /\ phase' = kind
    /\ tid' = title_id
    /\ pc' = "request"
    /\ mreq' = NewRequest(InfoUrl(kind, title_id))
    /\ data' = NoData
    /\ tasks' = <<>>
    /\ success' = TRUE
    /\ dirs' = {}
    /\ files' = {}

InitLocals ==
    /\ failed = <<>>
    /\ ok1 = FALSE
    /\ log = <<>>
    /\ data = NoData
    /\ tasks = <<>>
    /\ success = TRUE
    /\ dirs = {}
    /\ files = {}
    /\ ret = NoRet

\* the state after App.__init__
InitApp ==
    /\ is_downloading = FALSE
    /\ queue = <<>>
    /\ threads = <<>>
    /\ total_to_download = 0
    /\ completed_count = 0
    /\ inputs = "normal"
    /\ history_listbox = <<>>
    /\ status_label = "Idle"
    /\ window = "open"

\* scrape_multiple(title_ids) has been called
InitScrape ==
    /\ entry = "scrape_multiple"
    /\ title_ids \in TitleLists
    /\ idx = 0
    /\ tid = ""
    /\ phase = "none"
    /\ pc = "loop"
    /\ mreq = NoRequest
    /\ InitLocals
    /\ InitApp

\* download_covers or download_updates has been called for the title with
\* the long catalogue
InitPool ==
    /\ entry \in {"download_covers", "download_updates"}
    /\ title_ids = <<>>
    /\ idx = 0
    /\ tid = LongTitle
    /\ phase = (IF entry = "download_covers" THEN "covers" ELSE "updates")
    /\ pc = "request"
    /\ mreq = NewRequest(InfoUrl(phase, tid))
    /\ InitLocals
    /\ InitApp

\* download_covers(title_id) or download_updates(title_id) has been called
InitPhase ==
    /\ entry \in {"download_covers", "download_updates"}
    /\ title_ids = <<>>
    /\ idx = 0
    /\ tid = "A"
    /\ phase = (IF entry = "download_covers" THEN "covers" ELSE "updates")
    /\ pc = "request"
    /\ mreq = NewRequest(InfoUrl(phase, tid))
    /\ InitLocals
    /\ InitApp

(* ---------------------------------------------------------------------- *)
(* scrape_multiple                                                         *)
(* ---------------------------------------------------------------------- *)
\* tid = tid.strip()
Trimmed(raw) == Str(Strip(raw))

\* mutant: the emptiness test is missing
DroppedNever(raw) == FALSE

\* if not tid: continue
Dropped(raw) == Trimmed(raw) = ""

\* mutant: if not ok1 and not ok2
TitleFailedBoth(okc, oku) == ~okc /\ ~oku

\* if not (ok1 and ok2): failed.append(tid)
TitleFailed(okc, oku) == ~(okc /\ oku)

\* the for loop takes an entry that is empty once trimmed: continue
SkipEmpty ==
    /\ pc = "loop"
    /\ idx < Len(title_ids)
    /\ Dropped(title_ids[idx + 1])
    /\ idx' = idx + 1
    /\ UNCHANGED <<gui, entry, title_ids, failed, ok1, log, tid, phase, pc, mreq, data,
                   tasks, success, dirs, files, ret>>

\* the for loop takes the next entry and calls download_covers(tid)
CallCovers ==
    /\ pc = "loop"
    /\ idx < Len(title_ids)
    /\ ~Dropped(title_ids[idx + 1])
    /\ idx' = idx + 1
    /\ CallPhase("covers", Trimmed(title_ids[idx + 1]))
    /\ UNCHANGED <<gui, entry, title_ids, failed, ok1, log, ret>>

\* the for loop is over: return failed
ScrapeReturn ==
    /\ pc = "loop"
    /\ idx = Len(title_ids)
    /\ pc' = "done"
    /\ ret' = RetList(failed)
    /\ UNCHANGED <<gui, entry, title_ids, idx, failed, ok1, log, tid, phase, mreq, data,
                   tasks, success, dirs, files>>

\* the running phase returns v to its caller, and the caller goes on:
\* scrape_multiple calls download_updates after download_covers (line 370),
\* and after download_updates updates failed and goes back to the loop head
Return(v) ==
    \/ /\ entry # "scrape_multiple"
       /\ pc' = "done"
       /\ ret' = RetBool(v)
       /\ UNCHANGED <<gui, entry, scrape, tid, phase, mreq, data, tasks, success, dirs, files>>
    \/ /\ entry = "scrape_multiple"
       /\ phase = "covers"
       /\ ok1' = v
       /\ CallPhase("updates", tid)
       /\ UNCHANGED <<gui, entry, title_ids, idx, failed, log, ret>>
    \/ /\ entry = "scrape_multiple"
       /\ phase = "updates"
       /\ failed' = (IF TitleFailed(ok1, v) THEN Append(failed, tid) ELSE failed)
       /\ log' = Append(log, [tid |-> tid, covers |-> ok1, updates |-> v])
       /\ ok1' = FALSE
       /\ tid' = ""
       /\ phase' = "none"
       /\ pc' = "loop"
       /\ mreq' = NoRequest
       /\ data' = NoData
       /\ tasks' = <<>>
       /\ success' = TRUE
       /\ dirs' = {}
       /\ files' = {}
       /\ UNCHANGED <<gui, entry, title_ids, idx, ret>>

\* an exception leaves the running phase; neither download_covers,
\* download_updates nor scrape_multiple has a handler around it
Raise ==
    /\ pc' = "raised"
    /\ ret' = RetRaise
    /\ UNCHANGED <<gui, entry, scrape, tid, phase, mreq, data, tasks, success, dirs, files>>

(* ---------------------------------------------------------------------- *)
(* download_covers / download_updates: the calling thread                  *)
(* ---------------------------------------------------------------------- *)
\* one iteration of _make_request(info_url)
MetaAttempt ==
    /\ pc = "request"
    /\ LoopContinues(mreq)
    /\ mreq' \in { Attempt(mreq, o) : o \in OutcomesFor(tid) }
    /\ UNCHANGED <<gui, entry, scrape, tid, phase, pc, data, tasks, success, dirs, files, ret>>

\* mutant: the test of resp is missing, resp.json() is called on None
MetaFailedUnchecked ==
    /\ pc = "request"
    /\ Exhausted(mreq)
    /\ Raise

\* if not resp: return False
MetaFailed ==
    /\ pc = "request"
    /\ Exhausted(mreq)
    /\ Return(FALSE)

\* mutant: the body is saved before it is parsed
ParseFailSavesFirst ==
    /\ pc = "request"
    /\ Succeeded(mreq)
    /\ entry # "scrape_multiple"
    /\ \E p \in Payloads(phase, entry, tid) : p.json = "invalid"
    /\ dirs' = dirs \cup MkdirParents(BASE_DIR \o <<tid>>)
    /\ files' = files \cup {JsonFile(tid, phase)}
    /\ pc' = "done"
    /\ ret' = RetBool(FALSE)
    /\ UNCHANGED <<gui, entry, scrape, tid, phase, mreq, data, tasks, success>>

\* resp.json() raises ValueError: return False
ParseFail ==
    /\ pc = "request"
    /\ Succeeded(mreq)
    /\ \E p \in Payloads(phase, entry, tid) : p.json = "invalid"
    /\ Return(FALSE)

\* resp.json() returns the decoded document
ParseOk ==
    /\ pc = "request"
    /\ Succeeded(mreq)
    /\ \E p \in Payloads(phase, entry, tid) :
         /\ p.json # "invalid"
         /\ data' = p
    /\ mreq' = NoRequest
    /\ pc' = "save"
    /\ UNCHANGED <<gui, entry, scrape, tid, phase, tasks, success, dirs, files, ret>>

\* what a filesystem call may do
MkdirOutcomes == {"ok", "oserror"}
WriteOutcomes == {"ok", "open_fails", "write_fails"}

WriteOutcomesFor(title_id) == IF title_id = LongTitle THEN {"ok"} ELSE WriteOutcomes

\* open(..., "w"/"wb") creates the file unless open itself fails
AfterWrite(fs, path, wr) == IF wr = "open_fails" THEN fs ELSE fs \cup {path}

\* _save_json: out_dir.mkdir raises OSError out of _save_json and out of
\* the phase (it stands before the try)
SaveJsonRaises ==
    /\ pc = "save"
    /\ \E mk \in MkdirOutcomes : mk = "oserror"
    /\ Raise

\* _save_json: the directory is there; a failing open/json.dump is logged
SaveJson ==
    /\ pc = "save"
    /\ \E mk \in MkdirOutcomes, wr \in WriteOutcomesFor(tid) :
         /\ mk = "ok"
         /\ dirs' = dirs \cup MkdirParents(BASE_DIR \o <<tid>>)
         /\ files' = AfterWrite(files, JsonFile(tid, phase), wr)
    /\ pc' = "list"
    /\ UNCHANGED <<gui, entry, scrape, tid, phase, mreq, data, tasks, success, ret>>

\* covers_data.get(...) on a document that is no dict: AttributeError
NotADict ==
    /\ pc = "list"
    /\ data.json = "nondict"
    /\ Raise

\* not isinstance(covers_list, list) or not covers_list
NoItems(d) == d.field # "list" \/ d.items = <<>>

\* lines 158-160, 257-259: nothing to download, return True
NothingListed ==
    /\ pc = "list"
    /\ data.json = "dict"
    /\ NoItems(data)
    /\ Return(TRUE)

\* lines 314-320: the (media, upd) pairs of the media whose Updates is a list
RECURSIVE CollectTasks(_)
CollectTasks(media_list) ==
    IF media_list = <<>> THEN <<>>
    ELSE LET media == Head(media_list)
             mine  == IF media.field = "list"
                      THEN [i \in 1..Len(media.items) |->
                              Pair(media.MediaID, media.items[i])]
                      ELSE <<>>
         IN  mine \o CollectTasks(Tail(media_list))

\* covers, line 164: cover_dir.mkdir raises OSError out of download_covers
CoverDirRaises ==
    /\ pc = "list"
    /\ phase = "covers"
    /\ data.json = "dict"
    /\ ~NoItems(data)
    /\ \E mk \in MkdirOutcomes : mk = "oserror"
    /\ Raise

\* covers, lines 163-210: the covers directory is made and the pool opened
OpenCoverPool ==
    /\ pc = "list"
    /\ phase = "covers"
    /\ data.json = "dict"
    /\ ~NoItems(data)
    /\ \E mk \in MkdirOutcomes : mk = "ok"
    /\ dirs' = dirs \cup MkdirParents(BASE_DIR \o <<tid, "covers">>)
    /\ tasks' = [i \in 1..Len(data.items) |-> NewTask(data.items[i])]
    /\ success' = TRUE
    /\ data' = NoData
    /\ pc' = "submit"
    /\ UNCHANGED <<gui, entry, scrape, tid, phase, mreq, files, ret>>

\* updates, line 316: media.get on an entry of MediaIDS that is no dict
MediaNotADict ==
    /\ pc = "list"
    /\ phase = "updates"
    /\ data.json = "dict"
    /\ ~NoItems(data)
    /\ \E i \in 1..Len(data.items) : ~data.items[i].dict
    /\ Raise

\* updates, lines 322-324: no (media, upd) pair, return True
NoTasks ==
    /\ pc = "list"
    /\ phase = "updates"
    /\ data.json = "dict"
    /\ ~NoItems(data)
    /\ \A i \in 1..Len(data.items) : data.items[i].dict
    /\ CollectTasks(data.items) = <<>>
    /\ Return(TRUE)

\* updates, lines 314-328: the pairs are collected and the pool opened
OpenUpdatePool ==
    /\ pc = "list"
    /\ phase = "updates"
    /\ data.json = "dict"
    /\ ~NoItems(data)
    /\ \A i \in 1..Len(data.items) : data.items[i].dict
    /\ CollectTasks(data.items) # <<>>
    /\ tasks' = [i \in 1..Len(CollectTasks(data.items)) |->
                   NewTask(CollectTasks(data.items)[i])]
    /\ success' = TRUE
    /\ data' = NoData
    /\ pc' = "submit"
    /\ UNCHANGED <<gui, entry, scrape, tid, phase, mreq, dirs, files, ret>>

\* the descriptor a task was built from is a JSON object
ItemIsDict(kind, item) == IF kind = "covers" THEN item.dict ELSE item.update_entry.dict

\* executor.submit(...) of the next descriptor, then the key/value the
\* calling thread stores with the future: cover.get("CoverID"), resp.
\* upd.get("TitleUpdateID"), raises AttributeError on a non-dict descriptor,
\* inside the with block
Submit ==
    /\ pc = "submit"
    /\ \E i \in 1..Len(tasks) :
         /\ tasks[i].st = "new"
         /\ \A j \in 1..(i - 1) : tasks[j].st # "new"
         /\ tasks' = [tasks EXCEPT ![i].st = "queued"]
         /\ pc' = IF ~ItemIsDict(phase, tasks[i].item) THEN "unwind"
                  ELSE IF i = Len(tasks) THEN "collect" ELSE "submit"
    /\ UNCHANGED <<gui, entry, scrape, tid, phase, mreq, data, success, dirs, files, ret>>

\* mutant: success = result, the last future seen decides
FoldLastWins(acc, res) == res = "true"

\* lines 218-228 / 341-352: result = future.result(); a false result or an
\* exception of the task clears success
Fold(acc, res) == acc /\ res = "true"

\* as_completed yields a finished future the loop has not seen yet
CollectOf(i) ==
    /\ pc = "collect"
    /\ tasks[i].st = "done"
    /\ ~tasks[i].seen
    /\ tasks' = [tasks EXCEPT ![i].seen = TRUE]
    /\ success' = Fold(success, tasks[i].res)
    /\ UNCHANGED <<gui, entry, scrape, tid, phase, pc, mreq, data, dirs, files, ret>>

\* mutant: the as_completed loop breaks at the first failure
AllSeenOrFailed(ts) == (\A i \in 1..Len(ts) : ts[i].seen) \/ ~success

\* mutant: the futures are not awaited (executor.shutdown(wait=False), no
\* as_completed loop)
AllSeenNotAwaited(ts) == TRUE

\* as_completed is exhausted once every future was yielded
AllSeen(ts) == \A i \in 1..Len(ts) : ts[i].seen

\* the with block ends (shutdown(wait=True)) and the phase returns success
Finish ==
    /\ pc = "collect"
    /\ AllSeen(tasks)
    /\ Return(success)

\* executor.__exit__ on an exception: shutdown(wait=True) lets every
\* submitted future finish, then the exception leaves the phase
Unwind ==
    /\ pc = "unwind"
    /\ \A i \in 1..Len(tasks) : tasks[i].st \in {"new", "done"}
    /\ Raise

(* ---------------------------------------------------------------------- *)
(* The pool's worker threads: _download_single_cover/_download_single_update *)
(* ---------------------------------------------------------------------- *)
Running(ts) == { i \in 1..Len(ts) : ts[i].st = "fetch" }

\* mutant: ThreadPoolExecutor() without max_workers=MAX_WORKERS, a worker
\* thread for every submitted callable
MayStartUnbounded(ts, i) ==
    /\ ts[i].st = "queued"
    /\ \A j \in 1..(i - 1) : ts[j].st # "queued"

\* a worker thread is free or may still be created (max_workers), and the
\* work queue hands out futures in submission order
MayStart(ts, i) ==
    /\ ts[i].st = "queued"
    /\ \A j \in 1..(i - 1) : ts[j].st # "queued"
    /\ Cardinality(Running(ts)) < MAX_WORKERS

\* mutant: the test of version is missing
MissingIdsNoVersion(kind, item) ==
    IF kind = "covers"
    THEN item.CoverID = ""
    ELSE item.media_id = "" \/ item.update_entry.TitleUpdateID = ""

\* lines 168-169 / 263-267: the descriptor lacks an identifying field
MissingIds(kind, item) ==
    IF kind = "covers"
    THEN item.CoverID = ""
    ELSE \/ item.media_id = ""
         \/ item.update_entry.TitleUpdateID = ""
         \/ item.update_entry.Version = ""

FetchUrl(kind, item) ==
    IF kind = "covers"
    THEN Url("cover_fetch", item.CoverID)
    ELSE Url("update_fetch", item.update_entry.TitleUpdateID)

Done(t, res) == [t EXCEPT !.st = "done", !.res = res]

\* what the callable does up to its call of _make_request
Begin(kind, t) ==
    IF ~ItemIsDict(kind, t.item) THEN Done(t, "raise")
    ELSE IF MissingIds(kind, t.item) THEN Done(t, "true")
    ELSE [t EXCEPT !.st = "fetch", !.req = NewRequest(FetchUrl(kind, t.item))]

\* a worker takes the next queued future and runs its callable
StartOf(i) ==
    /\ pc \in {"submit", "collect", "unwind"}
    /\ MayStart(tasks, i)
    /\ tasks' = [tasks EXCEPT ![i] = Begin(phase, @)]
    /\ UNCHANGED <<gui, entry, scrape, tid, phase, pc, mreq, data, success, dirs, files, ret>>

\* one iteration of _make_request(image_url / update_url, stream=True)
TaskAttemptOf(i) ==
    /\ tasks[i].st = "fetch"
    /\ LoopContinues(tasks[i].req)
    /\ \E r \in { Attempt(tasks[i].req, o) : o \in OutcomesFor(tid) } :
         tasks' = [tasks EXCEPT ![i].req = r]
    /\ UNCHANGED <<gui, entry, scrape, tid, phase, pc, mreq, data, success, dirs, files, ret>>

\* if not img_resp / upd_resp: return False
TaskFailedOf(i) ==
    /\ tasks[i].st = "fetch"
    /\ Exhausted(tasks[i].req)
    /\ tasks' = [tasks EXCEPT ![i] = [Done(@, "false") EXCEPT !.req = NoRequest]]
    /\ UNCHANGED <<gui, entry, scrape, tid, phase, pc, mreq, data, success, dirs, files, ret>>

\* mutant: the binary is written over the metadata snapshot
DestinationIsSnapshot(kind, title_id, item, h) == JsonFile(title_id, kind)

\* the destination of the task's binary, from the response headers
Destination(kind, title_id, item, h) ==
    IF kind = "covers"
    THEN CoverFile(title_id, item.CoverID, h)
    ELSE UpdateFile(title_id, item.media_id, item.update_entry.Version,
                    item.update_entry.TitleUpdateID, h)

\* mutant: the except branch around the write returns True as well
WrittenIgnoresErrors(wr) == "true"

\* the callable's result once the file was opened and streamed
Written(wr) == IF wr = "ok" THEN "true" ELSE "false"

\* updates, line 296: out_dir.mkdir raises OSError inside the callable
TaskMkdirRaisesOf(i) ==
    /\ tasks[i].st = "fetch"
    /\ Succeeded(tasks[i].req)
    /\ phase = "updates"
    /\ \E mk \in MkdirOutcomes : mk = "oserror"
    /\ tasks' = [tasks EXCEPT ![i] = [Done(@, "raise") EXCEPT !.req = NoRequest]]
    /\ UNCHANGED <<gui, entry, scrape, tid, phase, pc, mreq, data, success, dirs, files, ret>>

\* lines 184-206 / 291-311: file name, (updates) directory, open and stream
TaskWriteOf(i) ==
    /\ tasks[i].st = "fetch"
    /\ Succeeded(tasks[i].req)
    /\ \E out_file \in { Destination(phase, tid, tasks[i].item, h) : h \in HeadersFor(tid) },
          wr \in WriteOutcomesFor(tid) :
         /\ tasks' = [tasks EXCEPT ![i] =
                        [Done(@, Written(wr)) EXCEPT
                           !.req = NoRequest,
                           !.path = IF wr = "open_fails" THEN <<>> ELSE out_file]]
         /\ files' = AfterWrite(files, out_file, wr)
         /\ dirs' = IF phase = "updates"
                    THEN dirs \cup MkdirParents(SubSeq(out_file, 1, Len(out_file) - 1))
                    ELSE dirs
    /\ UNCHANGED <<gui, entry, scrape, tid, phase, pc, mreq, data, success, ret>>

(* ---------------------------------------------------------------------- *)
(* Specifications                                                          *)
(* ---------------------------------------------------------------------- *)
Collect == \E i \in 1..Len(tasks) : CollectOf(i)
Start == \E i \in 1..Len(tasks) : StartOf(i)
TaskAttempt == \E i \in 1..Len(tasks) : TaskAttemptOf(i)
TaskFailed == \E i \in 1..Len(tasks) : TaskFailedOf(i)
TaskMkdirRaises == \E i \in 1..Len(tasks) : TaskMkdirRaisesOf(i)
TaskWrite == \E i \in 1..Len(tasks) : TaskWriteOf(i)

Worker ==
    \/ Start
    \/ TaskAttempt
    \/ TaskFailed
    \/ TaskMkdirRaises
    \/ TaskWrite

Caller ==
    \/ MetaAttempt
    \/ MetaFailed
    \/ ParseFail
    \/ ParseOk
    \/ SaveJsonRaises
    \/ SaveJson
    \/ NotADict
    \/ NothingListed
    \/ CoverDirRaises
    \/ OpenCoverPool
    \/ MediaNotADict
    \/ NoTasks
    \/ OpenUpdatePool
    \/ Submit
    \/ Collect
    \/ Finish
    \/ Unwind

NextPhase == Caller \/ Worker

Next == SkipEmpty \/ CallCovers \/ ScrapeReturn \/ Caller \/ Worker

\* a phase called for the title with the long catalogue: every step of
\* NextPhase that such a call can take
NextPool ==
    \/ MetaAttempt
    \/ ParseOk
    \/ SaveJsonRaises
    \/ SaveJson
    \/ CoverDirRaises
    \/ OpenCoverPool
    \/ OpenUpdatePool
    \/ Submit
    \/ Collect
    \/ Finish
    \/ Start
    \/ TaskAttempt
    \/ TaskMkdirRaises
    \/ TaskWrite

\* one call of download_covers or download_updates
SpecPhase == InitPhase /\ [][NextPhase]_vars

\* one call of scrape_multiple
Spec == InitScrape /\ [][Next]_vars

\* one call of a phase whose batch is larger than the pool
SpecPool == InitPool /\ [][NextPool]_vars

\* one call of scrape_multiple in which every HTTP attempt and every
\* filesystem call comes back and every thread that can go on is scheduled:
\* a step that stays possible is eventually taken
SpecLive == InitScrape /\ [][Next]_vars /\ WF_vars(Next)

(* ---------------------------------------------------------------------- *)
(* The GUI (src/GUI.py): App, its handlers on the Tk main thread and the   *)
(* background thread download_title_ids.  A call of download_covers or     *)
(* download_updates made by the background thread is one step here, with   *)
(* the results the phases modelled above can have: True, False, or an      *)
(* exception that leaves the phase.                                        *)
(* ---------------------------------------------------------------------- *)
\* what the user may have typed into title_id_entry
EntryTexts ==
    { <<>>, <<" ">>, <<",">>, <<" ", "A", " ">>, <<"A", ",", " ", "B", ",">> }

\* str.split(sep)
RECURSIVE Split(_, _)
Split(s, sep) ==
    IF Index(s, sep) = 0 THEN <<s>>
    ELSE <<SubSeq(s, 1, Index(s, sep) - 1)>>
             \o Split(SubSeq(s, Index(s, sep) + 1, Len(s)), sep)

\* if tid.strip()
NotBlank(s) == Strip(s) # <<>>

\* [tid.strip() for tid in txt.split(",") if tid.strip()]
ParseTitleIds(txt) ==
    LET parts == SelectSeq(Split(txt, ","), NotBlank)
    IN  [i \in 1..Len(parts) |-> Str(Strip(parts[i]))]

\* a message on self.queue
Message(type, msg_data) == [type |-> type, data |-> msg_data]

\* f"({idx}/{len(title_ids)}) Processing Title ID: {tid}"
Processing(i, n, title_id) ==
    "(" \o ToString(i) \o "/" \o ToString(n) \o ") Processing Title ID: " \o title_id

\* f"{title_id}  ->  {'OK' if success else 'FAILED'}"
DisplayText(title_id, ok) == title_id \o "  ->  " \o (IF ok THEN "OK" ELSE "FAILED")

\* a thread running download_title_ids(title_ids): idx counts the loop
\* iterations done, at is the statement it stands before, calls lists the
\* phase calls that returned
NewThread(ids) ==
    [title_ids |-> ids, idx |-> 0, at |-> "loop", ok_covers |-> FALSE,
     ok_updates |-> FALSE, calls |-> <<>>]

\* the thread has been started and has not ended
Active(t) == t.at \notin {"exit", "died", "killed"}

\* what a call of download_covers / download_updates can end with
PhaseResults == {"true", "false", "raise"}

\* app.mainloop() runs; no method of UnityScraper is modelled step by step
InitGUI ==
    /\ entry = "mainloop"
    /\ title_ids = <<>>
    /\ idx = 0
    /\ tid = ""
    /\ phase = "none"
    /\ pc = "mainloop"
    /\ mreq = NoRequest
    /\ InitLocals
    /\ InitApp

\* mutant: the test of is_downloading is missing
AlreadyRunningUnchecked == FALSE

\* if self.is_downloading: return
AlreadyRunning == is_downloading

\* start_download, called on the main thread with the entry's content
StartDownload ==
    /\ window = "open"
    /\ \E typed \in EntryTexts :
         LET txt == Strip(typed)
             ids == ParseTitleIds(txt)
         IN  \/ /\ AlreadyRunning
                /\ UNCHANGED gui
             \/ /\ ~AlreadyRunning
                /\ txt = <<>> \/ ids = <<>>
                /\ UNCHANGED gui
             \/ /\ ~AlreadyRunning
                /\ txt # <<>>
                /\ ids # <<>>
                /\ Len(threads) < MaxRuns
                /\ is_downloading' = TRUE
                /\ inputs' = "disabled"
                /\ history_listbox' = <<>>
                /\ total_to_download' = Len(ids)
                /\ completed_count' = 0
                /\ threads' = Append(threads, NewThread(ids))
                /\ UNCHANGED <<queue, status_label, window>>
    /\ UNCHANGED downloader

\* the widgets and attributes process_queue works on
Widgets ==
    [is_downloading |-> is_downloading, inputs |-> inputs,
     status_label |-> status_label, history_listbox |-> history_listbox,
     completed_count |-> completed_count]

\* lines 155-171: what process_queue does with one message
HandleMessage(g, m) ==
    IF m.type = "status" THEN [g EXCEPT !.status_label = m.data]
    ELSE IF m.type = "history"
    THEN [g EXCEPT !.history_listbox = Append(@, DisplayText(m.data[1], m.data[2]))]
    ELSE IF m.type = "progress" THEN [g EXCEPT !.completed_count = @ + m.data]
    ELSE IF m.type = "done" THEN [g EXCEPT !.is_downloading = FALSE, !.inputs = "normal"]
    ELSE g

\* while True: msg_type, data = self.queue.get_nowait() ... until queue.Empty
RECURSIVE Drain(_, _)
Drain(g, q) == IF q = <<>> THEN g ELSE Drain(HandleMessage(g, Head(q)), Tail(q))

\* process_queue, called on the main thread every 100 ms
ProcessQueue ==
    /\ window = "open"
    /\ LET g == Drain(Widgets, queue)
       IN  /\ is_downloading' = g.is_downloading
           /\ inputs' = g.inputs
           /\ status_label' = g.status_label
           /\ history_listbox' = g.history_listbox
           /\ completed_count' = g.completed_count
    /\ queue' = <<>>
    /\ UNCHANGED <<threads, total_to_download, window, downloader>>

\* on_closing: unless the user cancels, destroy() ends mainloop and with it
\* the process; a daemon thread ends with the process
OnClosing ==
    /\ window = "open"
    /\ \E confirmed \in BOOLEAN :
         IF is_downloading /\ ~confirmed
         THEN UNCHANGED gui
         ELSE /\ window' = "destroyed"
              /\ threads' = [i \in 1..Len(threads) |->
                               IF Active(threads[i])
                               THEN [threads[i] EXCEPT !.at = "killed"]
                               ELSE threads[i]]
              /\ UNCHANGED <<is_downloading, queue, total_to_download, completed_count,
                             inputs, history_listbox, status_label>>
    /\ UNCHANGED downloader

\* a step of the background thread i that leaves the main thread's state alone
ThreadStep(i, t, q) ==
    /\ window = "open"
    /\ threads' = [threads EXCEPT ![i] = t]
    /\ queue' = q
    /\ UNCHANGED <<is_downloading, total_to_download, completed_count, inputs,
                   history_listbox, status_label, window, downloader>>

\* the title of the loop iteration thread t is in
TitleOf(t) == t.title_ids[t.idx + 1]

\* lines 124-131: the loop takes the next title and enqueues its status
WorkerStatusOf(i) ==
    /\ threads[i].at = "loop"
    /\ threads[i].idx < Len(threads[i].title_ids)
    /\ ThreadStep(i, [threads[i] EXCEPT !.at = "covers"],
                  Append(queue, Message("status",
                      Processing(threads[i].idx + 1, Len(threads[i].title_ids),
                                 TitleOf(threads[i])))))

\* line 134: ok_covers = self.scraper.download_covers(tid)
WorkerCoversOf(i) ==
    /\ threads[i].at = "covers"
    /\ \E r \in PhaseResults :
         ThreadStep(i,
             IF r = "raise" THEN [threads[i] EXCEPT !.at = "died"]
             ELSE [threads[i] EXCEPT !.at = "updates", !.ok_covers = (r = "true"),
                                     !.calls = Append(@, <<TitleOf(threads[i]), "covers">>)],
             queue)

\* line 135: ok_updates = self.scraper.download_updates(tid)
WorkerUpdatesOf(i) ==
    /\ threads[i].at = "updates"
    /\ \E r \in PhaseResults :
         ThreadStep(i,
             IF r = "raise" THEN [threads[i] EXCEPT !.at = "died"]
             ELSE [threads[i] EXCEPT !.at = "history", !.ok_updates = (r = "true"),
                                     !.calls = Append(@, <<TitleOf(threads[i]), "updates">>)],
             queue)

\* lines 136-139: success = ok_covers and ok_updates, enqueued as "history"
WorkerHistoryOf(i) ==
    /\ threads[i].at = "history"
    /\ ThreadStep(i, [threads[i] EXCEPT !.at = "progress"],
                  Append(queue, Message("history",
                      <<TitleOf(threads[i]),
                        threads[i].ok_covers /\ threads[i].ok_updates>>)))

\* line 142, then back to the loop head
WorkerProgressOf(i) ==
    /\ threads[i].at = "progress"
    /\ ThreadStep(i, [threads[i] EXCEPT !.at = "loop", !.idx = @ + 1],
                  Append(queue, Message("progress", 1)))

\* line 145: the loop is over
WorkerAllDoneOf(i) ==
    /\ threads[i].at = "loop"
    /\ threads[i].idx = Len(threads[i].title_ids)
    /\ ThreadStep(i, [threads[i] EXCEPT !.at = "done"],
                  Append(queue, Message("status", "All downloads complete.")))

\* line 146: the last statement of the thread
WorkerDoneOf(i) ==
    /\ threads[i].at = "done"
    /\ ThreadStep(i, [threads[i] EXCEPT !.at = "exit"],
                  Append(queue, Message("done", "None")))

WorkerStatus == \E i \in 1..Len(threads) : WorkerStatusOf(i)
WorkerCovers == \E i \in 1..Len(threads) : WorkerCoversOf(i)
WorkerUpdates == \E i \in 1..Len(threads) : WorkerUpdatesOf(i)
WorkerHistory == \E i \in 1..Len(threads) : WorkerHistoryOf(i)
WorkerProgress == \E i \in 1..Len(threads) : WorkerProgressOf(i)
WorkerAllDone == \E i \in 1..Len(threads) : WorkerAllDoneOf(i)
WorkerDone == \E i \in 1..Len(threads) : WorkerDoneOf(i)

NextGUI ==
    \/ StartDownload
    \/ ProcessQueue
    \/ OnClosing
    \/ WorkerStatus
    \/ WorkerCovers
    \/ WorkerUpdates
    \/ WorkerHistory
    \/ WorkerProgress
    \/ WorkerAllDone
    \/ WorkerDone

\* the GUI from the construction of App on
SpecGUI == InitGUI /\ [][NextGUI]_vars

(* ---------------------------------------------------------------------- *)
(* Properties                                                              *)
(* ---------------------------------------------------------------------- *)
\* the _make_request calls in progress or just returned
Frames ==
    { f \in {mreq} \cup { tasks[i].req : i \in 1..Len(tasks) } : f.url # NoUrl }

AllFail(h) == \A n \in 1..Len(h) : h[n] = "fail"

\* C1: a call of _make_request whose attempts all failed goes on until it
\* has made MAX_RETRIES attempts, never makes more, and has then returned
\* None (a value: the frame is never left by an exception).
C1_ExhaustedAfterMaxRetries ==
    \A f \in Frames :
        AllFail(f.hist) =>
            /\ Len(f.hist) <= MAX_RETRIES
            /\ f.ret = (IF Len(f.hist) = MAX_RETRIES THEN "None" ELSE "running")

C1_Witness ==
    \E f \in Frames :
        /\ Len(f.hist) = MAX_RETRIES
        /\ AllFail(f.hist)
        /\ f.ret = "None"

\* C2: an attempt that succeeds is the last attempt of its call: the call
\* returned the response right then, after k failed attempts and that one,
\* with k < MAX_RETRIES.
C2_SuccessEndsTheCall ==
    \A f \in Frames :
        \A n \in 1..Len(f.hist) :
            f.hist[n] # "fail" =>
                /\ n = Len(f.hist)
                /\ n <= MAX_RETRIES
                /\ AllFail(SubSeq(f.hist, 1, n - 1))
                /\ f.ret = "resp"

C2_Witness ==
    \E i \in 1..Len(tasks) :
        /\ Len(tasks[i].req.hist) = MAX_RETRIES
        /\ AllFail(SubSeq(tasks[i].req.hist, 1, MAX_RETRIES - 1))
        /\ Last(tasks[i].req.hist) = "2xx"
        /\ tasks[i].req.ret = "resp"

\* the batch of a phase that has returned to its caller
BatchReturned == pc = "done" /\ tasks # <<>>

\* C3: the boolean a phase returns from its dispatch is the conjunction of
\* the task outcomes: false iff some task returned false or raised.
C3_BatchResultIsConjunction ==
    BatchReturned => ret = RetBool(\A i \in 1..Len(tasks) : tasks[i].res = "true")

C3_Witness ==
    /\ BatchReturned
    /\ Len(tasks) = 2
    /\ tasks[1].res = "false"
    /\ tasks[2].res = "true"
    /\ ret = RetBool(FALSE)

\* C4: when the dispatch has returned, every task of the batch was started
\* and ran to its end, whatever the other tasks did.
C4_AllTasksRunToCompletion ==
    BatchReturned =>
        \A i \in 1..Len(tasks) : tasks[i].st = "done" /\ tasks[i].res # "none"

C4_Witness ==
    /\ BatchReturned
    /\ \E i, j \in 1..Len(tasks) :
         /\ i < j
         /\ tasks[i].res = "false"
         /\ tasks[i].path = <<>>
         /\ tasks[j].res = "true"
         /\ tasks[j].path \in files

\* C5: download_covers / download_updates never end by an exception.
C5_PhaseNeverRaises == ret.kind # "raise"

\* the titles of a log, in order
Tids(l) == [i \in 1..Len(l) |-> l[i].tid]

\* the titles of a log one of whose phases returned false, in order
RECURSIVE FailedTitles(_)
FailedTitles(l) ==
    IF l = <<>> THEN <<>>
    ELSE (IF Head(l).covers /\ Head(l).updates THEN <<>> ELSE <<Head(l).tid>>)
         \o FailedTitles(Tail(l))

\* the entries of a title list that are not empty once trimmed, trimmed
RECURSIVE Kept(_)
Kept(raws) ==
    IF raws = <<>> THEN <<>>
    ELSE (IF Strip(Head(raws)) = <<>> THEN <<>> ELSE <<Str(Strip(Head(raws)))>>)
         \o Kept(Tail(raws))

\* C6: what scrape_multiple returns is the list of the processed titles for
\* which download_covers or download_updates returned false, in input
\* order; a title whose two phases returned true is not in it.
C6_FailedListIsExact ==
    pc = "done" =>
        /\ Tids(log) = Kept(title_ids)
        /\ ret = RetList(FailedTitles(log))

C6_Witness ==
    /\ pc = "done"
    /\ Len(log) = 2
    /\ log[1] = [tid |-> "A", covers |-> TRUE, updates |-> TRUE]
    /\ log[2] = [tid |-> "B", covers |-> TRUE, updates |-> FALSE]
    /\ ret = RetList(<<"B">>)

\* C7: scrape_multiple calls download_covers for each title it processes,
\* and however download_covers ends for a title, the next thing
\* scrape_multiple does is call download_updates for the same title;
\* download_updates is called at no other point.
C7_CoversThenUpdates ==
    [][ /\ (pc = "loop" /\ idx' # idx /\ Kept(<<title_ids[idx']>>) # <<>>)
             => (phase' = "covers" /\ <<tid'>> = Kept(<<title_ids[idx']>>))
        /\ (phase = "covers" /\ pc # "raised" /\ (phase' # "covers" \/ pc' = "raised"))
             => /\ phase' = "updates"
                /\ tid' = tid
                /\ mreq' = NewRequest(InfoUrl("updates", tid))
        /\ (phase # "updates" /\ phase' = "updates") => phase = "covers"
      ]_vars

\* C8: the title a phase runs for is the trimmed entry the loop stands at,
\* which is not empty; the titles processed before it are the non-empty
\* trimmed entries before it, in input order; every request and every
\* directory or file of the running phase is for that title, and between
\* titles nothing is requested or created.
C8_TrimmedInOrderNoEmpty ==
    /\ phase # "none" =>
         /\ idx \in 1..Len(title_ids)
         /\ <<tid>> = Kept(<<title_ids[idx]>>)
         /\ Tids(log) = Kept(SubSeq(title_ids, 1, idx - 1))
         /\ mreq.url # NoUrl => mreq.url.arg = tid
         /\ \A p \in files \cup dirs : Len(p) > 1 => p[2] = tid
    /\ phase = "none" =>
         /\ Tids(log) = Kept(SubSeq(title_ids, 1, idx))
         /\ mreq = NoRequest /\ tasks = <<>> /\ files = {} /\ dirs = {}

C8_Witness ==
    /\ idx = 2
    /\ title_ids = << <<" ">>, <<" ", "A", " ">> >>
    /\ phase = "covers"
    /\ tid = "A"
    /\ log = <<>>
    /\ JsonFile("A", "covers") \in files
    /\ \E i \in 1..Len(tasks) : tasks[i].path \in files

\* C9: once a phase has ended with a task of its batch that raised, the
\* phase has returned false and every task of the batch has run to its end.
C9_TaskExceptionIsAFailure ==
    (pc \in {"done", "raised"} /\ \E i \in 1..Len(tasks) : tasks[i].res = "raise")
        => /\ ret = RetBool(FALSE)
           /\ \A j \in 1..Len(tasks) : tasks[j].st = "done" /\ tasks[j].res # "none"

\* the descriptor is an object without CoverID, resp. without TitleUpdateID
\* or without Version
LacksIds(kind, item) ==
    IF kind = "covers"
    THEN item.dict /\ item.CoverID = ""
    ELSE /\ item.update_entry.dict
         /\ item.update_entry.TitleUpdateID = "" \/ item.update_entry.Version = ""

\* C10: a task whose descriptor lacks its identifying fields never enters
\* _make_request and creates no file: once a worker took it, it is done
\* with the result true; a batch of such tasks and of successful ones
\* returns true.
C10_DegenerateTaskIsSkipped ==
    /\ \A i \in 1..Len(tasks) :
         (LacksIds(phase, tasks[i].item) /\ tasks[i].st \notin {"new", "queued"})
            => /\ tasks[i].st = "done"
               /\ tasks[i].res = "true"
               /\ tasks[i].req = NoRequest
               /\ tasks[i].path = <<>>
    /\ (BatchReturned /\ \A i \in 1..Len(tasks) :
            LacksIds(phase, tasks[i].item) \/ tasks[i].res = "true")
         => ret = RetBool(TRUE)

C10_Witness ==
    /\ BatchReturned
    /\ phase = "updates"
    /\ Len(tasks) = 2
    /\ tasks[1].item.update_entry = Update(TRUE, "t1", "")
    /\ tasks[1].res = "true"
    /\ tasks[1].path = <<>>
    /\ tasks[2].res = "true"
    /\ tasks[2].path \in files
    /\ Cardinality(files) = 2
    /\ ret = RetBool(TRUE)

\* C11: at no time do more than MAX_WORKERS callables of a batch run, also
\* when the batch holds more tasks than the pool has workers.
C11_AtMostMaxWorkersRunning == Cardinality(Running(tasks)) <= MAX_WORKERS

C11_Witness ==
    /\ Len(tasks) > MAX_WORKERS
    /\ Cardinality(Running(tasks)) = MAX_WORKERS
    /\ \E i \in 1..Len(tasks) : tasks[i].st = "queued"

\* C12: once the metadata call of a phase has returned None, the phase
\* does nothing but return False: no directory and no file exists, no task
\* was built, and the phase has returned False or is about to.
C12_MetadataExhaustedReturnsFalse ==
    Exhausted(mreq) =>
        /\ dirs = {} /\ files = {} /\ tasks = <<>>
        /\ pc = "request" \/ (pc = "done" /\ ret = RetBool(FALSE))

C12_Witness ==
    /\ pc = "done"
    /\ Exhausted(mreq)
    /\ Len(mreq.hist) = MAX_RETRIES
    /\ ret = RetBool(FALSE)
    /\ files = {}

\* the phase has ended while it still holds the fetched response: ParseOk
\* drops the frame, so resp.json() raised ValueError
JsonRejected == pc \in {"done", "raised"} /\ Succeeded(mreq)

\* C13: a phase whose metadata body is no valid JSON has returned False
\* with no directory and no file created and no task built.
C13_InvalidJsonReturnsFalse ==
    JsonRejected =>
        /\ ret = RetBool(FALSE)
        /\ dirs = {} /\ files = {} /\ tasks = <<>>
        /\ data = NoData

C13_Witness ==
    /\ JsonRejected
    /\ phase = "updates"
    /\ Last(mreq.hist) = "2xx"
    /\ ret = RetBool(FALSE)
    /\ JsonFile(tid, "updates") \notin files

\* C14: whatever happens when the metadata snapshot is persisted, the phase
\* goes on to look at the list of the document.
C14_PersistFailureGoesOn == [][pc = "save" => pc' = "list"]_vars

\* C15: a phase that has ended on a document whose list field is absent,
\* no list or empty has returned True, has built no task, and no covers
\* directory exists.
C15_EmptyListReturnsTrue ==
    (pc \in {"done", "raised"} /\ data.json \in {"dict", "nondict"} /\ NoItems(data)) =>
        /\ ret = RetBool(TRUE)
        /\ tasks = <<>>
        /\ BASE_DIR \o <<tid, "covers">> \notin dirs

\* the tasks of the batch that failed: returned False or raised
FailedTasks == { i \in 1..Len(tasks) : tasks[i].res # "true" }

\* the files on disk other than the metadata snapshot
BatchFiles == files \ {JsonFile(tid, phase)}

\* C16 as stated: a batch of N tasks of which K failed has returned False
\* iff K > 0 and has left exactly N - K files.
C16_ExactlyNMinusKFiles ==
    BatchReturned =>
        /\ ret = RetBool(Cardinality(FailedTasks) = 0)
        /\ Cardinality(BatchFiles) = Len(tasks) - Cardinality(FailedTasks)

\* C16, amended: a batch of N tasks of which K failed has returned False
\* iff K > 0; each of the N - K tasks that succeeded and was not skipped
\* has its destination on disk, and the files of the batch are the
\* destinations its tasks opened (a skipped task opens none, two tasks may
\* open the same one, a task that fails while writing leaves its file).
C16_SucceededTasksLeftTheirFiles ==
    BatchReturned =>
        /\ ret = RetBool(Cardinality(FailedTasks) = 0)
        /\ \A i \in 1..Len(tasks) :
             /\ (tasks[i].res = "true" /\ ~MissingIds(phase, tasks[i].item))
                  => tasks[i].path \in files
             /\ MissingIds(phase, tasks[i].item) => tasks[i].path = <<>>
        /\ BatchFiles = { tasks[i].path : i \in 1..Len(tasks) } \ {<<>>}

C16_Witness ==
    /\ BatchReturned
    /\ Len(tasks) = 2
    /\ FailedTasks = {}
    /\ MissingIds(phase, tasks[1].item)
    /\ tasks[2].path \in files
    /\ Cardinality(BatchFiles) = 1
    /\ ret = RetBool(TRUE)

\* C17: no two tasks of a batch have opened the same destination.
C17_DistinctDestinations ==
    \A i, j \in 1..Len(tasks) :
        (i # j /\ tasks[i].path # <<>> /\ tasks[j].path # <<>>)
            => tasks[i].path # tasks[j].path

\* C18: the n-th sleep of a call of _make_request, made after its n-th
\* failed attempt, lasts min(BACKOFF_FACTOR^(n-1), MAX_BACKOFF) seconds:
\* 1, 2, 4 for n = 1, 2, 3; and the formula never exceeds MAX_BACKOFF, for
\* the attempts a call makes and for every attempt number up to MaxAttempt.
C18_BackoffDelays ==
    /\ \A f \in Frames :
         /\ f.slept = SubSeq(<<1, 2, 4>>, 1, Len(f.slept))
         /\ \A n \in 1..Len(f.slept) :
              /\ f.hist[n] = "fail"
              /\ f.slept[n] = Min(BACKOFF_FACTOR ^ (n - 1), MAX_BACKOFF)
              /\ f.slept[n] <= MAX_BACKOFF
    /\ \A n \in 1..MaxAttempt :
         /\ Backoff(n) <= MAX_BACKOFF
         /\ Backoff(n) \in {BACKOFF_FACTOR ^ (n - 1), MAX_BACKOFF}
         /\ BACKOFF_FACTOR ^ (n - 1) <= MAX_BACKOFF => Backoff(n) = BACKOFF_FACTOR ^ (n - 1)

C18_Witness ==
    \E f \in Frames :
        /\ f.slept = <<1, 2, 4>>
        /\ AllFail(f.hist)

\* the metadata of the running phase was fetched and parsed: ParseOk has
\* taken the document and dropped the frame
Parsed == mreq = NoRequest /\ phase # "none"

\* C19 as stated: once the metadata is parsed and _save_json is over, the
\* metadata file is on disk.
C19_SnapshotWrittenOnce ==
    (Parsed /\ pc # "save") => JsonFile(tid, phase) \in files

\* C19, amended: the metadata file is written by the one _save_json call
\* that follows the successful parse and precedes the dispatch, and by
\* nothing else: it is never there before the parse or when the fetch or
\* the parse failed, it appears or changes in no other step, and the call
\* is made once; it is there afterwards unless the directory or the file
\* could not be made.
C19_SnapshotWrittenAtMostOnce ==
    /\ [](JsonFile(tid, phase) \in files => (Parsed /\ pc # "save"))
    /\ [][
          /\ (JsonFile(tid, phase) \in files') # (JsonFile(tid, phase) \in files)
               => (pc = "save" /\ pc' = "list")
          /\ pc' = "save" => pc = "request"
          /\ pc # "request" => pc' # "request"
          /\ (pc = "save" /\ pc' = "list")
               => files' \in {files, files \cup {JsonFile(tid, phase)}}
       ]_vars

C19_Witness ==
    /\ BatchReturned
    /\ Len(tasks) = 2
    /\ \A i \in 1..2 : tasks[i].path \in files
    /\ tasks[1].path # tasks[2].path
    /\ JsonFile(tid, phase) \in files
    /\ Cardinality(files) = 3

\* C20: a call of _make_request sleeps only between two attempts: at most
\* MAX_RETRIES - 1 times, and exactly that often when it is exhausted.
C20_NoWaitAfterFinalAttempt ==
    \A f \in Frames :
        /\ Len(f.slept) <= MAX_RETRIES - 1
        /\ Exhausted(f) => Len(f.slept) = MAX_RETRIES - 1

\* C21: every attempt of a call of _make_request either got a 2xx response
\* or counted as a failure; a call that returned a response got a 2xx one.
C21_OnlyTwoHundredsSucceed ==
    \A f \in Frames :
        /\ \A n \in 1..Len(f.hist) : f.hist[n] \in {"2xx", "fail"}
        /\ Succeeded(f) => Last(f.hist) = "2xx"

\* the endpoints download_covers, resp. download_updates, sends requests to
PhaseEndpoints(kind) ==
    IF kind = "covers" THEN {"cover_info", "cover_fetch"}
    ELSE IF kind = "updates" THEN {"update_info", "update_fetch"}
    ELSE {}

\* the files download_covers, resp. download_updates, of a title writes
PhaseFile(kind, title_id, p) ==
    /\ Len(p) >= 3
    /\ p[2] = title_id
    /\ IF kind = "covers"
       THEN p = JsonFile(title_id, "covers") \/ p[3] = "covers"
       ELSE p # JsonFile(title_id, "covers") /\ p[3] # "covers"

\* C22: phases and titles never overlap.  Every request in flight and every
\* file a task writes belongs to the phase and title scrape_multiple is in,
\* and scrape_multiple moves on to another phase or another title only when
\* every task of the batch it leaves has completed.
C22_NoOverlapAcrossPhasesOrTitles ==
    /\ [](\A f \in Frames : f.url.ep \in PhaseEndpoints(phase))
    /\ [](\A i \in 1..Len(tasks) :
            tasks[i].path # <<>> => PhaseFile(phase, tid, tasks[i].path))
    /\ [][
          (phase' # phase \/ tid' # tid) =>
              \A i \in 1..Len(tasks) : tasks[i].st = "done" /\ tasks[i].req = NoRequest
       ]_vars

\* the covers batch of the second title is complete and download_updates is
\* about to be called, the first title having been dealt with
C22_Witness ==
    /\ entry = "scrape_multiple"
    /\ Len(log) = 1
    /\ log[1].tid # tid
    /\ phase = "covers"
    /\ pc = "collect"
    /\ tasks # <<>>
    /\ AllSeen(tasks)
    /\ \E i \in 1..Len(tasks) : tasks[i].path \in files

\* the download runs whose background thread is alive
ActiveRuns == { i \in 1..Len(threads) : Active(threads[i]) }

\* the phase calls download_title_ids makes for ids, in order
AllCalls(ids) ==
    [k \in 1..(2 * Len(ids)) |->
        <<ids[(k + 1) \div 2], IF k % 2 = 1 THEN "covers" ELSE "updates">>]

\* C23: at most one background run is alive at any time, and only while
\* is_downloading is true; no step taken while is_downloading is true starts
\* a thread or resets the progress; is_downloading goes back to false only
\* in a process_queue that handles a "done" message; and "done" is enqueued
\* only by a thread for which both phases of every title have returned.
C23_OneRunAtATime ==
    /\ [](Cardinality(ActiveRuns) <= 1)
    /\ [](ActiveRuns # {} => is_downloading)
    /\ [][
          is_downloading =>
              /\ Len(threads') = Len(threads)
              /\ total_to_download' = total_to_download
       ]_vars
    /\ [][
          (is_downloading /\ ~is_downloading') =>
              /\ \E n \in 1..Len(queue) : queue[n].type = "done"
              /\ queue' = <<>>
       ]_vars
    /\ [][
          (Len(queue') > Len(queue) /\ Last(queue').type = "done") =>
              \E i \in ActiveRuns :
                  /\ threads[i].calls = AllCalls(threads[i].title_ids)
                  /\ threads'[i].at = "exit"
       ]_vars

\* a second run is under way, in the updates phase of its second title, the
\* first run having ended and its "done" message having been handled
C23_Witness ==
    /\ Len(threads) = 2
    /\ threads[1].at = "exit"
    /\ threads[2].at = "updates"
    /\ threads[2].idx = 1
    /\ is_downloading
    /\ inputs = "disabled"
    /\ window = "open"

\* the exception that ended the call came from a filesystem call of the
\* calling thread: out_dir.mkdir in _save_json (line 101, nothing created
\* yet) or cover_dir.mkdir (line 164, the parsed document still at hand)
FilesystemRaised ==
    /\ pc = "raised"
    /\ dirs = {} \/ (phase = "covers" /\ data.json = "dict")

\* C24: a call of scrape_multiple eventually returns its list, unless a
\* filesystem call of the calling thread raised.
C24_EventuallyReturns ==
    <>(FilesystemRaised \/ (pc = "done" /\ ret = RetList(failed)))

\* the call of scrape_multiple eventually ends, by returning its list or by
\* an exception that left a phase: it neither loops nor waits forever
C24_EventuallyEnds == <>(pc \in {"done", "raised"})

====
